---- MODULE Spec2Model ----
(***************************************************************************)
(* Model of lib/sqlalchemy/sql/default_comparator.py: the operator         *)
(* catalog (operator_lookup) and the handlers that build expression nodes. *)
(* Every handler is a pure function of its arguments; the state is the     *)
(* last call made through the catalog (or directly to a handler) and what  *)
(* it returned or raised.                                                  *)
(***************************************************************************)
EXTENDS Integers, Sequences, FiniteSets, TLC

VARIABLES call, ret

vars == <<call, ret>>

\* Largest plain integer a caller passes as an operand.
MaxValue == 2

-----------------------------------------------------------------------------
(* Values: Python operands and expression nodes *)

PyNone == [kind |-> "py_None", val |-> 0]

PyBool(b) == [kind |-> "py_bool", val |-> IF b THEN 1 ELSE 0]

PyInt(n) == [kind |-> "py_int", val |-> n]

\* A Python object no coercion role accepts.
PyObject == [kind |-> "py_object", val |-> 0]

Null == [kind |-> "Null", type |-> "NullType"]

True_ == [kind |-> "True_", type |-> "Boolean"]

False_ == [kind |-> "False_", type |-> "Boolean"]

Column(name, type) == [kind |-> "Column", name |-> name, type |-> type]

BindParameter(value, type) == [kind |-> "BindParameter", value |-> value, type |-> type]

NoNode == [kind |-> "NoNode"]

BOOLEANTYPE == "Boolean"

MATCHTYPE == "MatchType"

NULLTYPE == "NullType"

\* type_api.INDEXABLE: the types that declare themselves indexable.
INDEXABLE == {"JSON", "ARRAY"}

Anchors == {Column("x", "Integer"), Column("s", "String"), Column("j", "JSON")}

PyLiterals == {PyNone, PyBool(TRUE), PyBool(FALSE)} \cup {PyInt(n) : n \in 1..MaxValue}

ConstNodes == {Null, True_, False_}

Operands == PyLiterals \cup ConstNodes \cup {Column("y", "Integer"), Column("n", "Numeric"), PyObject}

\* Operands of in_(): a list of plain values, a subquery, and a subquery that
\* carries its own ("in_ops") operator pair.
PyList == [kind |-> "py_list", val |-> 2, in_ops |-> <<>>]

Subquery == [kind |-> "Select", val |-> 0, in_ops |-> <<>>]

NegatedSubquery == [kind |-> "Select", val |-> 1, in_ops |-> <<"not_in_op", "in_op">>]

InOperands == {PyList, Subquery, NegatedSubquery, PyNone, PyObject}

PyStr == [kind |-> "py_str", val |-> 0]

\* The keyword modifiers a caller passes besides the named parameters.
EMPTY_DICT == {}

Modifiers == {EMPTY_DICT, {<<"escape", PyStr>>}}

IsNode(v) == v.kind \in {"Null", "True_", "False_", "Column", "BindParameter", "ClauseList",
                         "BinaryExpression", "UnaryExpression", "BooleanClauseList"}

-----------------------------------------------------------------------------
(* Results of a call *)

NoHook == [called |-> FALSE, on |-> NoNode, op |-> "", other |-> ""]

Return(node) == [status |-> "return", node |-> node, exc |-> "", name |-> "", hook |-> NoHook]

Raise(exc, name) == [status |-> "raise", node |-> NoNode, exc |-> exc, name |-> name, hook |-> NoHook]

NoResult == [status |-> "none", node |-> NoNode, exc |-> "", name |-> "", hook |-> NoHook]

-----------------------------------------------------------------------------
(* External collaborators *)

\* coercions.expect(role, element, expr=, operator=): the node an operand
\* becomes under a role, or a coercion error.
expect(role, element, expr, operator) ==
    CASE role = "ConstExprRole" ->
            IF element.kind = "py_None" THEN Return(Null)
            ELSE IF element.kind = "py_bool" THEN Return(IF element.val = 1 THEN True_ ELSE False_)
            ELSE IF element.kind \in {"Null", "True_", "False_"} THEN Return(element)
            ELSE Raise("CoercionError", operator)
      [] role = "BinaryElementRole" ->
            IF IsNode(element) THEN Return(element)
            ELSE IF element.kind \in {"py_None", "py_bool", "py_int"}
                 THEN Return(BindParameter(element, expr.type))
            ELSE Raise("CoercionError", operator)
      [] role = "InElementRole" ->
            IF element.kind \in {"py_list", "Select"}
            THEN Return([kind |-> IF element.kind = "py_list" THEN "BindParameter" ELSE "ScalarSelect",
                         value |-> element, type |-> expr.type, _annotations |-> element.in_ops])
            ELSE Raise("CoercionError", operator)

\* BinaryExpression(left, right, operator, type_=, negate=, modifiers=)
BinaryExpression(left, right, operator, type_, negate, modifiers) ==
    [kind |-> "BinaryExpression", left |-> left, right |-> right, operator |-> operator,
     type |-> IF type_ = "None" THEN NULLTYPE ELSE type_, negate |-> negate,
     modifiers |-> modifiers]

\* UnaryExpression(element, operator=, type_=)
UnaryExpression(element, operator, type_) ==
    [kind |-> "UnaryExpression", element |-> element, operator |-> operator, type |-> type_]

\* ClauseList(*clauses, operator=, group=, group_contents=)
ClauseList(clauses, operator, group, group_contents) ==
    [kind |-> "ClauseList", clauses |-> clauses, operator |-> operator, group |-> group,
     group_contents |-> group_contents, type |-> NULLTYPE]

-----------------------------------------------------------------------------
(* Boolean comparison handler *)

\* Variants of the boolean comparison handler, each with one slip.

\* The NULL rewrite keeps the negation it was given.
_boolean_compare_keeps_negate(expr, op, obj, negate_op, reverse, _any_all_expr, result_type, kwargs) ==
    LET rt == IF result_type = "None" THEN BOOLEANTYPE ELSE result_type
        tail(o) == IF reverse
                   THEN Return(BinaryExpression(o, expr, op, rt, negate_op, kwargs))
                   ELSE Return(BinaryExpression(expr, o, op, rt, negate_op, kwargs))
    IN  IF obj.kind \in {"py_None", "py_bool", "Null", "True_", "False_"}
        THEN IF op \in {"eq", "ne"} /\ obj.kind \in {"py_bool", "True_", "False_"}
             THEN Return(BinaryExpression(expr, expect("ConstExprRole", obj, expr, op).node,
                                          op, rt, negate_op, kwargs))
             ELSE IF op \in {"is_distinct_from", "is_not_distinct_from"}
             THEN Return(BinaryExpression(expr, expect("ConstExprRole", obj, expr, op).node,
                                          op, rt, negate_op, kwargs))
             ELSE IF _any_all_expr
             THEN tail(expect("ConstExprRole", obj, expr, op).node)
             ELSE IF op \in {"eq", "is_"}
             THEN Return(BinaryExpression(expr, expect("ConstExprRole", obj, expr, op).node,
                                          "is_", rt, negate_op, {}))
             ELSE IF op \in {"ne", "is_not"}
             THEN Return(BinaryExpression(expr, expect("ConstExprRole", obj, expr, op).node,
                                          "is_not", rt, negate_op, {}))
             ELSE Raise("ArgumentError", op)
        ELSE LET c == expect("BinaryElementRole", obj, expr, op)
             IN  IF c.status = "raise" THEN c ELSE tail(c.node)

\* The any/all check comes before the checks for a boolean or distinct-from.
_boolean_compare_any_all_first(expr, op, obj, negate_op, reverse, _any_all_expr, result_type, kwargs) ==
    LET rt == IF result_type = "None" THEN BOOLEANTYPE ELSE result_type
        tail(o) == IF reverse
                   THEN Return(BinaryExpression(o, expr, op, rt, negate_op, kwargs))
                   ELSE Return(BinaryExpression(expr, o, op, rt, negate_op, kwargs))
    IN  IF obj.kind \in {"py_None", "py_bool", "Null", "True_", "False_"}
        THEN IF _any_all_expr
             THEN tail(expect("ConstExprRole", obj, expr, op).node)
             ELSE IF op \in {"eq", "ne"} /\ obj.kind \in {"py_bool", "True_", "False_"}
             THEN Return(BinaryExpression(expr, expect("ConstExprRole", obj, expr, op).node,
                                          op, rt, negate_op, kwargs))
             ELSE IF op \in {"is_distinct_from", "is_not_distinct_from"}
             THEN Return(BinaryExpression(expr, expect("ConstExprRole", obj, expr, op).node,
                                          op, rt, negate_op, kwargs))
             ELSE IF op \in {"eq", "is_"}
             THEN Return(BinaryExpression(expr, expect("ConstExprRole", obj, expr, op).node,
                                          "is_", rt, "is_not", {}))
             ELSE IF op \in {"ne", "is_not"}
             THEN Return(BinaryExpression(expr, expect("ConstExprRole", obj, expr, op).node,
                                          "is_not", rt, "is_", {}))
             ELSE Raise("ArgumentError", op)
        ELSE LET c == expect("BinaryElementRole", obj, expr, op)
             IN  IF c.status = "raise" THEN c ELSE tail(c.node)

\* An operator that is not legal against None/True/False builds a node anyway.
_boolean_compare_no_raise(expr, op, obj, negate_op, reverse, _any_all_expr, result_type, kwargs) ==
    LET rt == IF result_type = "None" THEN BOOLEANTYPE ELSE result_type
        tail(o) == IF reverse
                   THEN Return(BinaryExpression(o, expr, op, rt, negate_op, kwargs))
                   ELSE Return(BinaryExpression(expr, o, op, rt, negate_op, kwargs))
    IN  IF obj.kind \in {"py_None", "py_bool", "Null", "True_", "False_"}
        THEN IF op \in {"eq", "ne"} /\ obj.kind \in {"py_bool", "True_", "False_"}
             THEN Return(BinaryExpression(expr, expect("ConstExprRole", obj, expr, op).node,
                                          op, rt, negate_op, kwargs))
             ELSE IF op \in {"is_distinct_from", "is_not_distinct_from"}
             THEN Return(BinaryExpression(expr, expect("ConstExprRole", obj, expr, op).node,
                                          op, rt, negate_op, kwargs))
             ELSE IF _any_all_expr
             THEN tail(expect("ConstExprRole", obj, expr, op).node)
             ELSE IF op \in {"eq", "is_"}
             THEN Return(BinaryExpression(expr, expect("ConstExprRole", obj, expr, op).node,
                                          "is_", rt, "is_not", {}))
             ELSE IF op \in {"ne", "is_not"}
             THEN Return(BinaryExpression(expr, expect("ConstExprRole", obj, expr, op).node,
                                          "is_not", rt, "is_", {}))
             ELSE tail(expect("ConstExprRole", obj, expr, op).node)
        ELSE LET c == expect("BinaryElementRole", obj, expr, op)
             IN  IF c.status = "raise" THEN c ELSE tail(c.node)

\* The final construction ignores reverse.
_boolean_compare_never_swaps(expr, op, obj, negate_op, reverse, _any_all_expr, result_type, kwargs) ==
    LET rt == IF result_type = "None" THEN BOOLEANTYPE ELSE result_type
        tail(o) == Return(BinaryExpression(expr, o, op, rt, negate_op, kwargs))
    IN  IF obj.kind \in {"py_None", "py_bool", "Null", "True_", "False_"}
        THEN IF op \in {"eq", "ne"} /\ obj.kind \in {"py_bool", "True_", "False_"}
             THEN Return(BinaryExpression(expr, expect("ConstExprRole", obj, expr, op).node,
                                          op, rt, negate_op, kwargs))
             ELSE IF op \in {"is_distinct_from", "is_not_distinct_from"}
             THEN Return(BinaryExpression(expr, expect("ConstExprRole", obj, expr, op).node,
                                          op, rt, negate_op, kwargs))
             ELSE IF _any_all_expr
             THEN tail(expect("ConstExprRole", obj, expr, op).node)
             ELSE IF op \in {"eq", "is_"}
             THEN Return(BinaryExpression(expr, expect("ConstExprRole", obj, expr, op).node,
                                          "is_", rt, "is_not", {}))
             ELSE IF op \in {"ne", "is_not"}
             THEN Return(BinaryExpression(expr, expect("ConstExprRole", obj, expr, op).node,
                                          "is_not", rt, "is_", {}))
             ELSE Raise("ArgumentError", op)
        ELSE LET c == expect("BinaryElementRole", obj, expr, op)
             IN  IF c.status = "raise" THEN c ELSE tail(c.node)

_boolean_compare(expr, op, obj, negate_op, reverse, _any_all_expr, result_type, kwargs) ==
    LET rt == IF result_type = "None" THEN BOOLEANTYPE ELSE result_type
        tail(o) == IF reverse
                   THEN Return(BinaryExpression(o, expr, op, rt, negate_op, kwargs))
                   ELSE Return(BinaryExpression(expr, o, op, rt, negate_op, kwargs))
    IN  IF obj.kind \in {"py_None", "py_bool", "Null", "True_", "False_"}
        THEN IF op \in {"eq", "ne"} /\ obj.kind \in {"py_bool", "True_", "False_"}
             THEN Return(BinaryExpression(expr, expect("ConstExprRole", obj, expr, op).node,
                                          op, rt, negate_op, kwargs))
             ELSE IF op \in {"is_distinct_from", "is_not_distinct_from"}
             THEN Return(BinaryExpression(expr, expect("ConstExprRole", obj, expr, op).node,
                                          op, rt, negate_op, kwargs))
             ELSE IF _any_all_expr
             THEN tail(expect("ConstExprRole", obj, expr, op).node)
             ELSE IF op \in {"eq", "is_"}
             THEN Return(BinaryExpression(expr, expect("ConstExprRole", obj, expr, op).node,
                                          "is_", rt, "is_not", {}))
             ELSE IF op \in {"ne", "is_not"}
             THEN Return(BinaryExpression(expr, expect("ConstExprRole", obj, expr, op).node,
                                          "is_not", rt, "is_", {}))
             ELSE Raise("ArgumentError", op)
        ELSE LET c == expect("BinaryElementRole", obj, expr, op)
             IN  IF c.status = "raise" THEN c ELSE tail(c.node)

-----------------------------------------------------------------------------
(* Generic binary operation and custom operators *)

\* The type adaptation hook of the left operand's comparator: given the
\* operator and the right operand's comparator, the operator to use and the
\* result type.
_adapt_expression(left, op, other_comparator) ==
    IF left.type = "String" /\ op = "add" THEN <<"concat_op", "String">>
    ELSE IF left.type = "Integer" /\ other_comparator = "Numeric" THEN <<op, "Numeric">>
    ELSE IF left.type = "JSON" /\ op = "getitem" THEN <<"json_getitem_op", "JSON">>
    ELSE <<op, left.type>>

\* Variant: the hook asked is always the anchor's, whatever reverse says.
_binary_operate_anchor_hook(expr, op, obj, reverse, result_type, kw) ==
    LET coerced_obj == expect("BinaryElementRole", obj, expr, op)
        left  == IF reverse THEN coerced_obj.node ELSE expr
        right == IF reverse THEN expr ELSE coerced_obj.node
        adapted == _adapt_expression(expr, op, coerced_obj.node.type)
    IN  IF coerced_obj.status = "raise" THEN coerced_obj
        ELSE IF result_type = "None"
        THEN [Return(BinaryExpression(left, right, adapted[1], adapted[2], "None", kw))
                EXCEPT !.hook = [called |-> TRUE, on |-> expr, op |-> op,
                                 other |-> coerced_obj.node.type]]
        ELSE Return(BinaryExpression(left, right, op, result_type, "None", kw))

_binary_operate(expr, op, obj, reverse, result_type, kw) ==
    LET coerced_obj == expect("BinaryElementRole", obj, expr, op)
        left  == IF reverse THEN coerced_obj.node ELSE expr
        right == IF reverse THEN expr ELSE coerced_obj.node
        adapted == _adapt_expression(left, op, right.type)
    IN  IF coerced_obj.status = "raise" THEN coerced_obj
        ELSE IF result_type = "None"
        THEN [Return(BinaryExpression(left, right, adapted[1], adapted[2], "None", kw))
                EXCEPT !.hook = [called |-> TRUE, on |-> left, op |-> op, other |-> right.type]]
        ELSE Return(BinaryExpression(left, right, op, result_type, "None", kw))

\* Attributes of the custom operators a caller may build.
CustomOps == {"custom_op_plain", "custom_op_cmp", "custom_op_typed"}

return_type(op) == IF op = "custom_op_typed" THEN "Integer" ELSE "None"

is_comparison(op) == op = "custom_op_cmp"

_custom_op_operate(expr, op, obj, reverse, result_type, kw) ==
    LET rt == IF result_type = "None"
              THEN IF return_type(op) # "None" THEN return_type(op)
                   ELSE IF is_comparison(op) THEN BOOLEANTYPE
                   ELSE "None"
              ELSE result_type
    IN  _binary_operate(expr, op, obj, reverse, rt, kw)

-----------------------------------------------------------------------------
(* Conjunctions, scalar wraps, membership, indexed access, unsupported *)

_conjunction_operate(expr, op, other) ==
    IF op \in {"and_", "or_"}
    THEN Return([kind |-> "BooleanClauseList", operator |-> op, clauses |-> <<expr, other>>,
                 type |-> BOOLEANTYPE])
    ELSE Raise("NotImplementedError", "")

_scalar(expr, op, fn) == Return([kind |-> "UnaryExpression", element |-> expr, operator |-> fn,
                                 type |-> expr.type])

_in_impl(expr, op, seq_or_selectable, negate_op, reverse, _any_all_expr, result_type, kw) ==
    LET c == expect("InElementRole", seq_or_selectable, expr, op)
        annotated == c.status = "return" /\ Len(c.node._annotations) = 2
        op2 == IF annotated THEN c.node._annotations[1] ELSE op
        negate_op2 == IF annotated THEN c.node._annotations[2] ELSE negate_op
    IN  IF c.status = "raise" THEN c
        ELSE _boolean_compare(expr, op2, c.node, negate_op2, reverse, _any_all_expr,
                              result_type, kw)

_unsupported_impl(expr, op) == Raise("NotImplementedError", op)

\* Variant: the anchor's type is not asked whether it is indexable.
_getitem_impl_unchecked(expr, op, other, reverse, result_type, kw) ==
    LET c == expect("BinaryElementRole", other, expr, op)
    IN  IF c.status = "raise" THEN c
        ELSE _binary_operate(expr, op, c.node, reverse, result_type, kw)

_getitem_impl(expr, op, other, reverse, result_type, kw) ==
    IF expr.type \in INDEXABLE
    THEN LET c == expect("BinaryElementRole", other, expr, op)
         IN  IF c.status = "raise" THEN c
             ELSE _binary_operate(expr, op, c.node, reverse, result_type, kw)
    ELSE _unsupported_impl(expr, op)

-----------------------------------------------------------------------------
(* Negation, match, distinct, between, collate, regular expressions *)

\* ColumnElement._negate(): a Binary node with a negation operator swaps it
\* with its operator; anything else is wrapped in NOT.
_negate(expr) ==
    IF expr.kind = "BinaryExpression" /\ expr.negate # "None"
    THEN [expr EXCEPT !.operator = expr.negate, !.negate = expr.operator]
    ELSE UnaryExpression(expr, "inv", BOOLEANTYPE)

_inv_impl(expr, op) ==
    IF "negation_clause" \in DOMAIN expr
    THEN Return(expr.negation_clause)
    ELSE Return(_negate(expr))

_neg_impl(expr, op) == Return(UnaryExpression(expr, "neg", expr.type))

_match_impl(expr, op, other, reverse, _any_all_expr, kw) ==
    LET c == expect("BinaryElementRole", other, expr, "match_op")
    IN  IF c.status = "raise" THEN c
        ELSE _boolean_compare(expr, "match_op", c.node,
                              IF op = "match_op" THEN "not_match_op" ELSE "match_op",
                              reverse, _any_all_expr, MATCHTYPE, kw)

_distinct_impl(expr, op) == Return(UnaryExpression(expr, "distinct_op", expr.type))

\* Variant: the bounds are listed upper first.
_between_impl_swapped(expr, op, cleft, cright, kw) ==
    LET l == expect("BinaryElementRole", cleft, expr, "and_")
        r == expect("BinaryElementRole", cright, expr, "and_")
    IN  IF l.status = "raise" THEN l
        ELSE IF r.status = "raise" THEN r
        ELSE Return(BinaryExpression(expr,
                                     ClauseList(<<r.node, l.node>>, "and_", FALSE, FALSE),
                                     op, "None",
                                     IF op = "between_op" THEN "not_between_op" ELSE "between_op",
                                     kw))

_between_impl(expr, op, cleft, cright, kw) ==
    LET l == expect("BinaryElementRole", cleft, expr, "and_")
        r == expect("BinaryElementRole", cright, expr, "and_")
    IN  IF l.status = "raise" THEN l
        ELSE IF r.status = "raise" THEN r
        ELSE Return(BinaryExpression(expr,
                                     ClauseList(<<l.node, r.node>>, "and_", FALSE, FALSE),
                                     op, "None",
                                     IF op = "between_op" THEN "not_between_op" ELSE "between_op",
                                     kw))

\* CollationClause._create_collation_expression(expr, collation)
_collate_impl(expr, op, collation) ==
    Return(BinaryExpression(expr, [kind |-> "CollationClause", value |-> collation,
                                   type |-> NULLTYPE],
                            "collate", expr.type, "None", EMPTY_DICT))

_regexp_match_impl(expr, op, pattern, flags, reverse, _any_all_expr, result_type, kw) ==
    LET f == IF flags.kind = "py_None" THEN Return(flags)
             ELSE expect("BinaryElementRole", flags, expr, "regexp_replace_op")
    IN  IF f.status = "raise" THEN f
        ELSE _boolean_compare(expr, op, pattern,
                              IF op = "regexp_match_op" THEN "not_regexp_match_op"
                              ELSE "regexp_match_op",
                              reverse, _any_all_expr, result_type,
                              kw \cup {<<"flags", f.node>>})

_regexp_replace_impl(expr, op, pattern, replacement, flags, reverse, result_type, kw) ==
    LET rep == expect("BinaryElementRole", replacement, expr, "regexp_replace_op")
        f == IF flags.kind = "py_None" THEN Return(flags)
             ELSE expect("BinaryElementRole", flags, expr, "regexp_replace_op")
    IN  IF rep.status = "raise" THEN rep
        ELSE IF f.status = "raise" THEN f
        ELSE _binary_operate(expr, op, pattern, reverse, result_type,
                             kw \cup {<<"replacement", rep.node>>, <<"flags", f.node>>})

-----------------------------------------------------------------------------
(* The operator catalog *)

Entry(handler, negate_op, fn) == [handler |-> handler, negate_op |-> negate_op, fn |-> fn]

Plain(handler) == Entry(handler, "absent", "absent")

Negated(handler, negate_op) == Entry(handler, negate_op, "absent")

operator_lookup ==
    ("and_" :> Plain("_conjunction_operate")) @@
    ("or_" :> Plain("_conjunction_operate")) @@
    ("inv" :> Plain("_inv_impl")) @@
    ("add" :> Plain("_binary_operate")) @@
    ("mul" :> Plain("_binary_operate")) @@
    ("sub" :> Plain("_binary_operate")) @@
    ("div" :> Plain("_binary_operate")) @@
    ("mod" :> Plain("_binary_operate")) @@
    ("truediv" :> Plain("_binary_operate")) @@
    ("floordiv" :> Plain("_binary_operate")) @@
    ("custom_op" :> Plain("_custom_op_operate")) @@
    ("json_path_getitem_op" :> Plain("_binary_operate")) @@
    ("json_getitem_op" :> Plain("_binary_operate")) @@
    ("concat_op" :> Plain("_binary_operate")) @@
    ("any_op" :> Entry("_scalar", "absent", "_create_any")) @@
    ("all_op" :> Entry("_scalar", "absent", "_create_all")) @@
    ("lt" :> Negated("_boolean_compare", "ge")) @@
    ("le" :> Negated("_boolean_compare", "gt")) @@
    ("ne" :> Negated("_boolean_compare", "eq")) @@
    ("gt" :> Negated("_boolean_compare", "le")) @@
    ("ge" :> Negated("_boolean_compare", "lt")) @@
    ("eq" :> Negated("_boolean_compare", "ne")) @@
    ("is_distinct_from" :> Negated("_boolean_compare", "is_not_distinct_from")) @@
    ("is_not_distinct_from" :> Negated("_boolean_compare", "is_distinct_from")) @@
    ("like_op" :> Negated("_boolean_compare", "not_like_op")) @@
    ("ilike_op" :> Negated("_boolean_compare", "not_ilike_op")) @@
    ("not_like_op" :> Negated("_boolean_compare", "like_op")) @@
    ("not_ilike_op" :> Negated("_boolean_compare", "ilike_op")) @@
    ("contains_op" :> Negated("_boolean_compare", "not_contains_op")) @@
    ("startswith_op" :> Negated("_boolean_compare", "not_startswith_op")) @@
    ("endswith_op" :> Negated("_boolean_compare", "not_endswith_op")) @@
    ("desc_op" :> Entry("_scalar", "absent", "_create_desc")) @@
    ("asc_op" :> Entry("_scalar", "absent", "_create_asc")) @@
    ("nulls_first_op" :> Entry("_scalar", "absent", "_create_nulls_first")) @@
    ("nulls_last_op" :> Entry("_scalar", "absent", "_create_nulls_last")) @@
    ("in_op" :> Negated("_in_impl", "not_in_op")) @@
    ("not_in_op" :> Negated("_in_impl", "in_op")) @@
    ("is_" :> Negated("_boolean_compare", "is_")) @@
    ("is_not" :> Negated("_boolean_compare", "is_not")) @@
    ("collate" :> Plain("_collate_impl")) @@
    ("match_op" :> Plain("_match_impl")) @@
    ("not_match_op" :> Plain("_match_impl")) @@
    ("distinct_op" :> Plain("_distinct_impl")) @@
    ("between_op" :> Plain("_between_impl")) @@
    ("not_between_op" :> Plain("_between_impl")) @@
    ("neg" :> Plain("_neg_impl")) @@
    ("getitem" :> Plain("_getitem_impl")) @@
    ("lshift" :> Plain("_unsupported_impl")) @@
    ("rshift" :> Plain("_unsupported_impl")) @@
    ("contains" :> Plain("_unsupported_impl")) @@
    ("regexp_match_op" :> Plain("_regexp_match_impl")) @@
    ("not_regexp_match_op" :> Plain("_regexp_match_impl")) @@
    ("regexp_replace_op" :> Plain("_regexp_replace_impl"))

KeysOf(handler) == {k \in DOMAIN operator_lookup : operator_lookup[k].handler = handler}

-----------------------------------------------------------------------------
(* Calls *)

\* A call of a handler: the anchor, the operator, up to three operands and
\* the keyword arguments.
Call(via, key, handler, op, expr, obj, obj2, obj3, negate_op, reverse, aa, result_type, kw) ==
    [via |-> via, key |-> key, handler |-> handler, op |-> op, expr |-> expr, obj |-> obj,
     obj2 |-> obj2, obj3 |-> obj3, negate_op |-> negate_op, reverse |-> reverse,
     _any_all_expr |-> aa, result_type |-> result_type, kw |-> kw]

\* The call made for an operator through the catalog: its handler, with the
\* catalog's static parameters under the caller's keyword arguments.
operate(key, op, expr, obj, obj2, obj3, reverse, aa, result_type, kw) ==
    Call("catalog", key, operator_lookup[key].handler, op, expr, obj, obj2, obj3,
         operator_lookup[key].negate_op, reverse, aa, result_type, kw)

\* What the handler of a call returns or raises.
invoke(c) ==
    CASE c.handler = "_boolean_compare" ->
            _boolean_compare(c.expr, c.op, c.obj, c.negate_op, c.reverse, c._any_all_expr,
                             c.result_type, c.kw)
      [] c.handler = "_binary_operate" ->
            _binary_operate(c.expr, c.op, c.obj, c.reverse, c.result_type, c.kw)
      [] c.handler = "_custom_op_operate" ->
            _custom_op_operate(c.expr, c.op, c.obj, c.reverse, c.result_type, c.kw)
      [] c.handler = "_conjunction_operate" -> _conjunction_operate(c.expr, c.op, c.obj)
      [] c.handler = "_scalar" -> _scalar(c.expr, c.op, operator_lookup[c.key].fn)
      [] c.handler = "_in_impl" ->
            _in_impl(c.expr, c.op, c.obj, c.negate_op, c.reverse, c._any_all_expr,
                     c.result_type, c.kw)
      [] c.handler = "_getitem_impl" ->
            _getitem_impl(c.expr, c.op, c.obj, c.reverse, c.result_type, c.kw)
      [] c.handler = "_unsupported_impl" -> _unsupported_impl(c.expr, c.op)
      [] c.handler = "_inv_impl" -> _inv_impl(c.expr, c.op)
      [] c.handler = "_neg_impl" -> _neg_impl(c.expr, c.op)
      [] c.handler = "_match_impl" ->
            _match_impl(c.expr, c.op, c.obj, c.reverse, c._any_all_expr, c.kw)
      [] c.handler = "_distinct_impl" -> _distinct_impl(c.expr, c.op)
      [] c.handler = "_between_impl" -> _between_impl(c.expr, c.op, c.obj, c.obj2, c.kw)
      [] c.handler = "_collate_impl" -> _collate_impl(c.expr, c.op, c.obj)
      [] c.handler = "_regexp_match_impl" ->
            _regexp_match_impl(c.expr, c.op, c.obj, c.obj2, c.reverse, c._any_all_expr,
                               c.result_type, c.kw)
      [] c.handler = "_regexp_replace_impl" ->
            _regexp_replace_impl(c.expr, c.op, c.obj, c.obj2, c.obj3, c.reverse,
                                 c.result_type, c.kw)

\* An anchor that carries a precomputed negation.
Relationship == [kind |-> "Relationship", type |-> BOOLEANTYPE,
                 negation_clause |-> Column("not_r", BOOLEANTYPE)]

Flags == {PyNone, PyStr, PyObject}

ResultTypes == {"None", "Numeric"}

CatalogCalls ==
    {operate(k, k, e, o, PyNone, PyNone, r, aa, "None", kw) :
        k \in KeysOf("_boolean_compare"), e \in Anchors, o \in Operands,
        r \in BOOLEAN, aa \in BOOLEAN, kw \in Modifiers}
    \cup
    {operate(k, k, e, o, PyNone, PyNone, r, FALSE, rt, EMPTY_DICT) :
        k \in KeysOf("_binary_operate"), e \in Anchors, o \in Operands,
        r \in BOOLEAN, rt \in ResultTypes}
    \cup
    {operate("custom_op", op, e, o, PyNone, PyNone, r, FALSE, rt, EMPTY_DICT) :
        op \in CustomOps, e \in Anchors, o \in Operands, r \in BOOLEAN, rt \in ResultTypes}
    \cup
    {operate(k, k, e, o, PyNone, PyNone, FALSE, FALSE, "None", EMPTY_DICT) :
        k \in KeysOf("_conjunction_operate"), e \in Anchors,
        o \in {Column("y", "Integer"), True_}}
    \cup
    {operate(k, k, e, PyNone, PyNone, PyNone, FALSE, FALSE, "None", EMPTY_DICT) :
        k \in KeysOf("_scalar") \cup KeysOf("_neg_impl") \cup KeysOf("_distinct_impl"),
        e \in Anchors}
    \cup
    {operate("inv", "inv", e, PyNone, PyNone, PyNone, FALSE, FALSE, "None", EMPTY_DICT) :
        e \in Anchors \cup {Relationship}}
    \cup
    {operate("collate", "collate", e, PyStr, PyNone, PyNone, FALSE, FALSE, "None", EMPTY_DICT) :
        e \in Anchors}
    \cup
    {operate(k, k, e, o, PyNone, PyNone, r, aa, "None", EMPTY_DICT) :
        k \in KeysOf("_in_impl"), e \in Anchors, o \in InOperands, r \in BOOLEAN,
        aa \in BOOLEAN}
    \cup
    {operate("getitem", "getitem", e, o, PyNone, PyNone, FALSE, FALSE, rt, EMPTY_DICT) :
        e \in Anchors, o \in Operands, rt \in ResultTypes}
    \cup
    {operate(k, k, e, o, PyNone, PyNone, FALSE, FALSE, "None", EMPTY_DICT) :
        k \in KeysOf("_unsupported_impl"), e \in Anchors, o \in Operands}
    \cup
    {operate(k, k, e, o, PyNone, PyNone, r, aa, "None", kw) :
        k \in KeysOf("_match_impl"), e \in Anchors, o \in Operands, r \in BOOLEAN,
        aa \in BOOLEAN, kw \in Modifiers}
    \cup
    {operate(k, k, e, lo, hi, PyNone, FALSE, FALSE, "None", kw) :
        k \in KeysOf("_between_impl"), e \in Anchors, lo \in Operands, hi \in Operands,
        kw \in Modifiers}
    \cup
    {operate(k, k, e, o, f, PyNone, r, aa, "None", EMPTY_DICT) :
        k \in KeysOf("_regexp_match_impl"), e \in Anchors, o \in Operands, f \in Flags,
        r \in BOOLEAN, aa \in BOOLEAN}
    \cup
    {operate(k, k, e, o, rep, f, FALSE, FALSE, rt, EMPTY_DICT) :
        k \in KeysOf("_regexp_replace_impl"), e \in Anchors, o \in Operands,
        rep \in {PyStr, PyObject}, f \in Flags, rt \in ResultTypes}

\* Calls of the boolean comparison handler made without the catalog: any
\* operator, with the negation left at its default or given by the caller.
DirectCalls ==
    {Call("direct", op, "_boolean_compare", op, e, o, PyNone, PyNone, n, r, aa, rt, kw) :
        op \in KeysOf("_boolean_compare") \cup {"add", "in_op", "match_op"},
        e \in Anchors, o \in Operands, n \in {"None", "eq", "is_not"}, r \in BOOLEAN,
        aa \in BOOLEAN, rt \in {"None", MATCHTYPE}, kw \in {EMPTY_DICT}}

-----------------------------------------------------------------------------
(* The state machine: a call is made, its handler answers, and the caller may
   negate the node it got. *)

Init == call \in CatalogCalls \cup DirectCalls /\ ret = NoResult

boolean_compare ==
    /\ ret.status = "none"
    /\ call.handler = "_boolean_compare"
    /\ ret' = invoke(call)
    /\ UNCHANGED call

binary_operate ==
    /\ ret.status = "none"
    /\ call.handler = "_binary_operate"
    /\ ret' = invoke(call)
    /\ UNCHANGED call

custom_op_operate ==
    /\ ret.status = "none"
    /\ call.handler = "_custom_op_operate"
    /\ ret' = invoke(call)
    /\ UNCHANGED call

conjunction_operate ==
    /\ ret.status = "none"
    /\ call.handler = "_conjunction_operate"
    /\ ret' = invoke(call)
    /\ UNCHANGED call

scalar ==
    /\ ret.status = "none"
    /\ call.handler = "_scalar"
    /\ ret' = invoke(call)
    /\ UNCHANGED call

in_impl ==
    /\ ret.status = "none"
    /\ call.handler = "_in_impl"
    /\ ret' = invoke(call)
    /\ UNCHANGED call

getitem_impl ==
    /\ ret.status = "none"
    /\ call.handler = "_getitem_impl"
    /\ ret' = invoke(call)
    /\ UNCHANGED call

unsupported_impl ==
    /\ ret.status = "none"
    /\ call.handler = "_unsupported_impl"
    /\ ret' = invoke(call)
    /\ UNCHANGED call

inv_impl ==
    /\ ret.status = "none"
    /\ call.handler = "_inv_impl"
    /\ ret' = invoke(call)
    /\ UNCHANGED call

neg_impl ==
    /\ ret.status = "none"
    /\ call.handler = "_neg_impl"
    /\ ret' = invoke(call)
    /\ UNCHANGED call

match_impl ==
    /\ ret.status = "none"
    /\ call.handler = "_match_impl"
    /\ ret' = invoke(call)
    /\ UNCHANGED call

distinct_impl ==
    /\ ret.status = "none"
    /\ call.handler = "_distinct_impl"
    /\ ret' = invoke(call)
    /\ UNCHANGED call

between_impl ==
    /\ ret.status = "none"
    /\ call.handler = "_between_impl"
    /\ ret' = invoke(call)
    /\ UNCHANGED call

collate_impl ==
    /\ ret.status = "none"
    /\ call.handler = "_collate_impl"
    /\ ret' = invoke(call)
    /\ UNCHANGED call

regexp_match_impl ==
    /\ ret.status = "none"
    /\ call.handler = "_regexp_match_impl"
    /\ ret' = invoke(call)
    /\ UNCHANGED call

regexp_replace_impl ==
    /\ ret.status = "none"
    /\ call.handler = "_regexp_replace_impl"
    /\ ret' = invoke(call)
    /\ UNCHANGED call

\* The caller applies ~ to the node a build returned.
negate_result ==
    /\ ret.status = "return"
    /\ call.key # "inv"
    /\ ret.node.kind = "BinaryExpression"
    /\ call' = operate("inv", "inv", ret.node, PyNone, PyNone, PyNone, FALSE, FALSE, "None",
                       EMPTY_DICT)
    /\ ret' = NoResult

Next ==
    \/ boolean_compare
    \/ binary_operate
    \/ custom_op_operate
    \/ conjunction_operate
    \/ scalar
    \/ in_impl
    \/ getitem_impl
    \/ unsupported_impl
    \/ inv_impl
    \/ neg_impl
    \/ match_impl
    \/ distinct_impl
    \/ between_impl
    \/ collate_impl
    \/ regexp_match_impl
    \/ regexp_replace_impl
    \/ negate_result

Spec == Init /\ [][Next]_vars

-----------------------------------------------------------------------------
(* Properties *)

Answered == ret.status # "none"

Built == ret.status = "return"

IsLiteral(o) == o.kind \in {"py_None", "py_bool", "Null", "True_", "False_"}

IsBareNull(o) == o.kind \in {"py_None", "Null"}

IsBoolean(o) == o.kind \in {"py_bool", "True_", "False_"}

NullLegalOps == {"eq", "ne", "is_", "is_not", "is_distinct_from", "is_not_distinct_from"}

\* The operand of a call as the coercion engine hands it to the handler.
AsConstant(c) == expect("ConstExprRole", c.obj, c.expr, c.op).node

AsBinaryElement(c) == expect("BinaryElementRole", c.obj, c.expr, c.op).node

Coercible(o) == expect("BinaryElementRole", o, Column("x", "Integer"), "and_").status = "return"

\* C2: outside any/all, the boolean comparison handler answers a bare NULL
\* operand under eq/is_ with (anchor IS NULL, negation IS NOT) and under
\* ne/is_not with (anchor IS NOT NULL, negation IS), whatever negate_op it
\* was given.
C2_NullRewrite ==
    (/\ call.handler = "_boolean_compare"
     /\ Answered
     /\ ~call._any_all_expr
     /\ IsBareNull(call.obj)
     /\ call.op \in {"eq", "is_", "ne", "is_not"})
    => /\ Built
       /\ ret.node.kind = "BinaryExpression"
       /\ ret.node.left = call.expr
       /\ ret.node.right = Null
       /\ ret.node.operator = (IF call.op \in {"eq", "is_"} THEN "is_" ELSE "is_not")
       /\ ret.node.negate = (IF call.op \in {"eq", "is_"} THEN "is_not" ELSE "is_")

C2_Witness ==
    /\ call.handler = "_boolean_compare"
    /\ call.op = "is_"
    /\ call.negate_op = "is_"
    /\ call.obj = PyNone
    /\ ~call._any_all_expr
    /\ Built
    /\ ret.node.operator = "is_"
    /\ ret.node.negate = "is_not"

\* C3: eq/ne against a boolean, and distinct-from against any NULL/boolean
\* literal, are never rewritten, with or without any/all: the node is
\* (anchor, the literal as a constant) with the operator and the negation
\* given.
C3_NoRewrite ==
    (/\ call.handler = "_boolean_compare"
     /\ Answered
     /\ \/ call.op \in {"eq", "ne"} /\ IsBoolean(call.obj)
        \/ call.op \in {"is_distinct_from", "is_not_distinct_from"} /\ IsLiteral(call.obj))
    => /\ Built
       /\ ret.node.kind = "BinaryExpression"
       /\ ret.node.left = call.expr
       /\ ret.node.right = AsConstant(call)
       /\ ret.node.right \in ConstNodes
       /\ ret.node.operator = call.op
       /\ ret.node.negate = call.negate_op

C3_Witness ==
    /\ call.handler = "_boolean_compare"
    /\ call.op = "eq"
    /\ call.obj = PyBool(TRUE)
    /\ call._any_all_expr
    /\ call.reverse
    /\ Built
    /\ ret.node.operator = "eq"
    /\ ret.node.right = True_

\* C4 as claimed: every catalog operator that takes an operand, other than
\* the six legal ones, fails with an argument error against a NULL/boolean
\* literal, whatever reverse, the modifiers and the any/all flag are.
C4_AsClaimed ==
    (/\ call.via = "catalog"
     /\ call.handler \in {"_boolean_compare", "_binary_operate"}
     /\ Answered
     /\ call.op \notin NullLegalOps
     /\ IsLiteral(call.obj))
    => ret.status = "raise" /\ ret.exc = "ArgumentError"

\* C4 amended: an operator of the boolean comparison handler other than the
\* six legal ones fails with an argument error against a NULL/boolean
\* literal outside any/all, whatever reverse and the modifiers are; under
\* any/all the literal is coerced and a node is built; the generic binary
\* handler (add, ...) builds a node against the literal.
C4_Amended ==
    /\ (/\ call.handler = "_boolean_compare"
        /\ Answered
        /\ call.op \notin NullLegalOps
        /\ IsLiteral(call.obj))
       => IF call._any_all_expr
          THEN Built /\ AsConstant(call) \in {ret.node.left, ret.node.right}
          ELSE ret.status = "raise" /\ ret.exc = "ArgumentError" /\ ret.node = NoNode
    /\ (/\ call.handler = "_binary_operate"
        /\ Answered
        /\ IsLiteral(call.obj))
       => Built

C4_Witness ==
    /\ call.via = "catalog"
    /\ call.key = "like_op"
    /\ call.obj = Null
    /\ call.reverse
    /\ call.kw # EMPTY_DICT
    /\ ~call._any_all_expr
    /\ ret.status = "raise"
    /\ ret.exc = "ArgumentError"

\* C8 as claimed: whenever the boolean comparison handler returns a node,
\* with reverse the coerced operand is on the left and the anchor on the
\* right, for every operand, the NULL/boolean literals included; without
\* reverse the anchor is left and the operand right.
C8_AsClaimed ==
    (call.handler = "_boolean_compare" /\ Built)
    => LET operand == IF IsLiteral(call.obj) THEN AsConstant(call) ELSE AsBinaryElement(call)
       IN  IF call.reverse
           THEN ret.node.left = operand /\ ret.node.right = call.expr
           ELSE ret.node.left = call.expr /\ ret.node.right = operand

\* The literal cases that return their node at once, before the reverse swap.
ReturnsAtOnce(c) ==
    /\ IsLiteral(c.obj)
    /\ \/ c.op \in {"eq", "ne"} /\ IsBoolean(c.obj)
       \/ c.op \in {"is_distinct_from", "is_not_distinct_from"}
       \/ ~c._any_all_expr

\* C8 amended: reverse swaps the operands of every node the handler builds
\* in its final step (an operand that is no NULL/boolean literal, or a
\* literal under any/all with an operator that is neither eq/ne against a
\* boolean nor distinct-from); the literal cases that return at once keep the
\* anchor on the left whatever reverse is.
C8_Amended ==
    (call.handler = "_boolean_compare" /\ Built)
    => LET operand == IF IsLiteral(call.obj) THEN AsConstant(call) ELSE AsBinaryElement(call)
       IN  IF call.reverse /\ ~ReturnsAtOnce(call)
           THEN ret.node.left = operand /\ ret.node.right = call.expr
           ELSE ret.node.left = call.expr /\ ret.node.right = operand

C8_Witness ==
    /\ call.handler = "_boolean_compare"
    /\ call.reverse
    /\ call.op = "lt"
    /\ call.obj = PyInt(1)
    /\ Built
    /\ ret.node.left = BindParameter(PyInt(1), call.expr.type)
    /\ ret.node.right = call.expr

\* C5: between/not_between build (anchor, [coerce(lo), coerce(hi)]) with the
\* operator given, the other member of the pair as negation, and a list of
\* exactly the two bounds in that order, joined by AND, not grouped; each
\* bound is coerced on its own against the anchor with AND as the operator.
C5_Between ==
    (call.handler = "_between_impl" /\ Answered)
    => LET lo == expect("BinaryElementRole", call.obj, call.expr, "and_")
           hi == expect("BinaryElementRole", call.obj2, call.expr, "and_")
       IN  IF Coercible(call.obj) /\ Coercible(call.obj2)
           THEN /\ Built
                /\ ret.node.kind = "BinaryExpression"
                /\ ret.node.left = call.expr
                /\ ret.node.operator = call.op
                /\ ret.node.negate = (IF call.op = "between_op" THEN "not_between_op"
                                      ELSE "between_op")
                /\ ret.node.right.kind = "ClauseList"
                /\ ret.node.right.clauses = <<lo.node, hi.node>>
                /\ ret.node.right.operator = "and_"
                /\ ~ret.node.right.group
                /\ ~ret.node.right.group_contents
           ELSE ret.status = "raise" /\ ret.exc = "CoercionError" /\ ret.name = "and_"

C5_Witness ==
    /\ call.handler = "_between_impl"
    /\ call.op = "not_between_op"
    /\ call.obj = PyInt(1)
    /\ call.obj2 = PyInt(2)
    /\ Built
    /\ ret.node.negate = "between_op"
    /\ ret.node.right.clauses[1].value = PyInt(1)
    /\ ret.node.right.clauses[2].value = PyInt(2)

\* C6: lshift, rshift and contains, and getitem on an anchor whose type is
\* not indexable, fail with an unimplemented-operator error that names the
\* operator and return no node; getitem on an indexable anchor never raises
\* that error and returns what the generic binary handler builds.
C6_Unsupported ==
    /\ (/\ Answered
        /\ \/ call.key \in {"lshift", "rshift", "contains"}
           \/ call.key = "getitem" /\ call.expr.type \notin INDEXABLE)
       => /\ ret.status = "raise"
          /\ ret.exc = "NotImplementedError"
          /\ ret.name = call.op
          /\ ret.node = NoNode
    /\ (/\ Answered
        /\ call.key = "getitem"
        /\ call.expr.type \in INDEXABLE)
       => /\ ret.exc # "NotImplementedError"
          /\ ret = _binary_operate(call.expr, "getitem", call.obj, call.reverse,
                                   call.result_type, call.kw)
          /\ Coercible(call.obj) => Built /\ ret.node.left = call.expr

C6_Witness ==
    /\ call.key = "getitem"
    /\ call.expr.type = "Integer"
    /\ ret.status = "raise"
    /\ ret.exc = "NotImplementedError"
    /\ ret.name = "getitem"

\* The result type that reaches the generic binary handler.
ReachingType(c) ==
    IF c.handler = "_custom_op_operate" /\ c.result_type = "None"
    THEN IF return_type(c.op) # "None" THEN return_type(c.op)
         ELSE IF is_comparison(c.op) THEN BOOLEANTYPE ELSE "None"
    ELSE c.result_type

\* C9: in the generic binary handler the type adaptation hook is called
\* exactly when no result type reaches it. With a result type the node keeps
\* the operator given and that type; without one the hook asked is that of
\* the operand on the left after the reverse swap, it is given the right
\* operand's type, and the node's operator and type are what it returns.
C9_Hook ==
    (call.handler \in {"_binary_operate", "_custom_op_operate"} /\ Built)
    => /\ ret.node.left = (IF call.reverse THEN AsBinaryElement(call) ELSE call.expr)
       /\ ret.node.right = (IF call.reverse THEN call.expr ELSE AsBinaryElement(call))
       /\ ret.hook.called <=> ReachingType(call) = "None"
       /\ IF ReachingType(call) # "None"
          THEN ret.node.operator = call.op /\ ret.node.type = ReachingType(call)
          ELSE /\ ret.hook.on = ret.node.left
               /\ ret.hook.op = call.op
               /\ ret.hook.other = ret.node.right.type
               /\ <<ret.node.operator, ret.node.type>>
                      = _adapt_expression(ret.hook.on, ret.hook.op, ret.hook.other)

C9_Witness ==
    /\ call.handler = "_binary_operate"
    /\ call.op = "add"
    /\ call.reverse
    /\ call.expr = Column("s", "String")
    /\ call.obj = Column("n", "Numeric")
    /\ call.result_type = "None"
    /\ Built
    /\ ret.hook.called
    /\ ret.hook.on = Column("n", "Numeric")
    /\ ret.node.operator = "add"
    /\ ret.node.type = "Numeric"

\* The negation partner of each operator that has one.
Partner ==
    ("lt" :> "ge") @@ ("ge" :> "lt") @@ ("le" :> "gt") @@ ("gt" :> "le") @@
    ("eq" :> "ne") @@ ("ne" :> "eq") @@ ("is_" :> "is_not") @@ ("is_not" :> "is_") @@
    ("is_distinct_from" :> "is_not_distinct_from") @@
    ("is_not_distinct_from" :> "is_distinct_from") @@
    ("like_op" :> "not_like_op") @@ ("not_like_op" :> "like_op") @@
    ("ilike_op" :> "not_ilike_op") @@ ("not_ilike_op" :> "ilike_op") @@
    ("contains_op" :> "not_contains_op") @@ ("startswith_op" :> "not_startswith_op") @@
    ("endswith_op" :> "not_endswith_op") @@
    ("in_op" :> "not_in_op") @@ ("not_in_op" :> "in_op") @@
    ("match_op" :> "not_match_op") @@ ("not_match_op" :> "match_op") @@
    ("between_op" :> "not_between_op") @@ ("not_between_op" :> "between_op") @@
    ("regexp_match_op" :> "not_regexp_match_op") @@
    ("not_regexp_match_op" :> "regexp_match_op")

\* The build of the same anchor and operands under another operator of the
\* catalog; an operator the catalog does not hold has no build.
BuildUnder(key, c) ==
    IF key \notin DOMAIN operator_lookup
    THEN Raise("KeyError", key)
    ELSE invoke(operate(key, key, c.expr, c.obj, c.obj2, c.obj3, c.reverse, c._any_all_expr,
                        c.result_type, c.kw))

SameNode(a, b) ==
    /\ a.kind = b.kind
    /\ a.left = b.left
    /\ a.right = b.right
    /\ a.operator = b.operator
    /\ a.negate = b.negate
    /\ a.type = b.type

\* C1: for every operator with a negation partner built through the
\* catalog, negating the Binary node built gives a node with the same left,
\* right, operator, negation and result type as the build of the partner
\* with the same anchor and operand.
C1_NegationSymmetry ==
    (/\ call.via = "catalog"
     /\ call.key \in DOMAIN Partner
     /\ Built
     /\ ret.node.kind = "BinaryExpression")
    => LET other == BuildUnder(Partner[call.key], call)
       IN  /\ other.status = "return"
           /\ SameNode(_inv_impl(ret.node, "inv").node, other.node)

\* C7: the match handler answers match_op and not_match_op with a node whose
\* operator is the operator asked, whose negation is the other member of the
\* pair and whose type is the match type, for an operand that is no literal.
C7_MatchPair ==
    (/\ call.handler = "_match_impl"
     /\ Built
     /\ ~IsLiteral(call.obj))
    => /\ ret.node.operator = call.op
       /\ ret.node.negate = Partner[call.op]
       /\ ret.node.type = MATCHTYPE

\* C10: a Binary node built by a comparison operator through the catalog,
\* with the catalog's static parameters, has a negation operator that is not
\* its own operator.
C10_NegationDiffers ==
    (/\ call.via = "catalog"
     /\ call.handler = "_boolean_compare"
     /\ Built)
    => ret.node.negate # ret.node.operator

====
